---- MODULE Spec2Model ----
(***************************************************************************)
(* Model of the line-oriented JSON RPC server of src/server/src/main.rs:   *)
(* one accept loop that, per accepted connection, reads one line, decodes  *)
(* it into an RpcRequest, dispatches through the method table and writes   *)
(* one response line.                                                      *)
(*                                                                         *)
(* Text is modelled as sequences of one-character strings.  JSON values    *)
(* (serde_json::Value) are records [t, n, s, a, o] with a tag t and the    *)
(* payload in the field the tag selects.  Floating point numbers are       *)
(* fixed-point tenths (37 is 3.7); integer literals keep their own tag,    *)
(* because serde decodes a u64 only from an integer literal.               *)
(***************************************************************************)
EXTENDS Integers, Sequences, FiniteSets, TLC

(* ---------------------------- bounds ----------------------------------- *)
MaxConns == 2
MaxLines == 2

(* ---------------------------- state ------------------------------------ *)
VARIABLES
  method_table,  \* the HashMap built by create_method_table
  pc,            \* where the accept loop is: "accept", "read", "handle", "exit"
  cur,           \* the connection whose stream the loop holds, 0 if none
  backlog,       \* connections made and not yet accepted, oldest first
  accepted,      \* connections in the order accept returned them
  cst,           \* per connection: "idle", "queued", "serving", "dropped"
  nsent,         \* per connection: complete lines the client has sent
  partial,       \* per connection: unterminated bytes follow the sent lines
  cclosed,       \* per connection: the client has closed its writing side
  nread,         \* per connection: read_line calls that returned bytes
  rres,          \* per connection: result of the last read ("none" before)
  lines,         \* per connection: the String read_line filled
  out,           \* per connection: messages handed to write_all, in order
  hline,         \* handler specification: the line under test
  hstage,        \* handler specification: "idle", "fed", "done"
  hout,          \* handler specification: what handle_line returned
  mcall,         \* method specification: the last call (name, params, res)
  mprev          \* method specification: the call before it

vars == <<method_table, pc, cur, backlog, accepted, cst, nsent,
          partial, cclosed, nread, rres, lines, out, hline, hstage, hout,
          mcall, mprev>>

srvvars == <<method_table, pc, cur, backlog, accepted, cst, nsent,
             partial, cclosed, nread, rres, lines, out>>
mvars == <<mcall, mprev>>
hvars == <<hline, hstage, hout, mvars>>

\* "let x = v": v is evaluated once and F applied to its value
Let(v, F(_)) == CHOOSE y \in {F(x) : x \in {v}} : TRUE

(* ---------------------------- characters ------------------------------- *)
DQ == "\""
BS == "\\"
NL == "\n"

CharCode(ch) ==
  CASE ch = NL  -> 10
    [] ch = DQ  -> 34
    [] ch = "B" -> 66
    [] ch = BS  -> 92
    [] ch = "a" -> 97
    [] ch = "b" -> 98
    [] ch = "c" -> 99
    [] OTHER    -> 120

DigitChar(d) == <<"0", "1", "2", "3", "4", "5", "6", "7", "8", "9">>[d + 1]

RECURSIVE Digits(_)
Digits(n) == IF n < 10 THEN <<DigitChar(n)>>
             ELSE Digits(n \div 10) \o <<DigitChar(n % 10)>>

Abs(i) == IF i < 0 THEN -i ELSE i

\* Numbers from 2^53 on, where an f64 no longer holds every integer, do
\* not fit the integers of the model: BigBase + d stands for 2^53 + d,
\* as a u64 and as an f64 alike, and everything below BigBase for itself.
BigBase == 1000000000
IsBig(i) == i >= BigBase

\* the decimal digits of 2^53 = 9007199254740992
TwoTo53 == <<9, 0, 0, 7, 1, 9, 9, 2, 5, 4, 7, 4, 0, 9, 9, 2>>

\* the digits of ds + k
RECURSIVE AddDigits(_, _)
AddDigits(ds, k) ==
  IF ds = <<>> THEN (IF k = 0 THEN <<>> ELSE Digits(k))
  ELSE AddDigits(SubSeq(ds, 1, Len(ds) - 1), (ds[Len(ds)] + k) \div 10)
         \o <<DigitChar((ds[Len(ds)] + k) % 10)>>

\* Display of an integer (u64 id, i32 code, integral f64)
RenderInt(i) ==
  IF IsBig(i) THEN AddDigits(TwoTo53, i - BigBase)
  ELSE IF i < 0 THEN <<"-">> \o Digits(-i) ELSE Digits(i)

\* f64::to_string of the value t/10: shortest decimal form, no ".0"
RenderF64(t) ==
  IF IsBig(t) THEN RenderInt(t)
  ELSE (IF t < 0 THEN <<"-">> ELSE <<>>)
         \o Digits(Abs(t) \div 10)
         \o (IF Abs(t) % 10 = 0 THEN <<>> ELSE <<".", DigitChar(Abs(t) % 10)>>)

(* ---------------------------- JSON values ------------------------------ *)
JNull     == [t |-> "null",  n |-> 0, s |-> <<>>, a |-> <<>>, o |-> <<>>]
JBool(b)  == [t |-> "bool",  n |-> IF b THEN 1 ELSE 0, s |-> <<>>, a |-> <<>>, o |-> <<>>]
JInt(i)   == [t |-> "int",   n |-> i, s |-> <<>>, a |-> <<>>, o |-> <<>>]
JFloat(x) == [t |-> "float", n |-> x, s |-> <<>>, a |-> <<>>, o |-> <<>>]
JStr(str) == [t |-> "str",   n |-> 0, s |-> str, a |-> <<>>, o |-> <<>>]
JArr(arr) == [t |-> "arr",   n |-> 0, s |-> <<>>, a |-> arr, o |-> <<>>]
JObj(fs)  == [t |-> "obj",   n |-> 0, s |-> <<>>, a |-> <<>>, o |-> fs]
Field(key, v) == [k |-> key, v |-> v]

\* variant: booleans taken for numbers
is_f64_bool(v) == v.t \in {"int", "float", "bool"}

\* Value::as_array / as_f64 / as_str succeed exactly on these tags
is_array(v) == v.t = "arr"
is_f64(v)   == v.t \in {"int", "float"}
is_str(v)   == v.t = "str"

\* u64 as f64 from 2^53 on: the f64 values there are 2 apart, the nearer
\* one is taken and of two equally near ones the one with the even mantissa
RoundToF64(d) ==
  IF d % 2 = 0 THEN d
  ELSE IF ((d - 1) \div 2) % 2 = 0 THEN d - 1 ELSE d + 1

\* the f64 of a number: t/10 is held as t
as_f64(v) ==
  IF v.t = "int"
  THEN IF IsBig(v.n) THEN BigBase + RoundToF64(v.n - BigBase) ELSE 10 * v.n
  ELSE v.n

\* variant: exactly two elements asked for
has_second_exact(v) == v.t = "arr" /\ Len(v.a) = 2

\* arr.first() / arr.get(1): present only when the array is long enough
has_first(v)  == is_array(v) /\ Len(v.a) >= 1
has_second(v) == is_array(v) /\ Len(v.a) >= 2

(* ---------------------------- request lines ---------------------------- *)
\* A received line after trim(): text that is not JSON, or a JSON value.
NoLine        == [kind |-> "none", val |-> JNull]
Garbage       == [kind |-> "garbage", val |-> JNull]
JsonLine(v)   == [kind |-> "json", val |-> v]

\* RpcRequest, as serde_json::from_str::<RpcRequest> returns it
DecodeErr == [ok |-> FALSE, method |-> <<>>, params |-> JNull, id |-> 0]
DecodeOk(m, p, i) == [ok |-> TRUE, method |-> m, params |-> p, id |-> i]

FieldVals(v, key) == SelectSeq(v.o, LAMBDA e : e.k = key)

\* variant: the id read as a signed integer
okId_signed(v) == v.t = "int"

AllStr(arr) == \A i \in 1..Len(arr) : is_str(arr[i])
okMethod(v)     == is_str(v)
okParamTypes(v) == v.t = "null" \/ (is_array(v) /\ AllStr(v.a))
okId(v)         == v.t = "int" /\ v.n >= 0

\* a JSON object: every field at most once, method/params/id required,
\* param_types optional, unknown keys ignored
DecodeMap(v) ==
  LET m  == FieldVals(v, "method")
      p  == FieldVals(v, "params")
      pt == FieldVals(v, "param_types")
      i  == FieldVals(v, "id")
  IN IF /\ Len(m) = 1 /\ okMethod(m[1].v)
        /\ Len(p) = 1
        /\ Len(pt) <= 1 /\ (Len(pt) = 1 => okParamTypes(pt[1].v))
        /\ Len(i) = 1 /\ okId(i[1].v)
     THEN DecodeOk(m[1].v.s, p[1].v, i[1].v.n)
     ELSE DecodeErr

\* a JSON array: the four fields in declaration order, no more, no fewer
DecodeSeq(v) ==
  IF /\ Len(v.a) = 4
     /\ okMethod(v.a[1])
     /\ okParamTypes(v.a[3])
     /\ okId(v.a[4])
  THEN DecodeOk(v.a[1].s, v.a[2], v.a[4].n)
  ELSE DecodeErr

from_str(line) ==
  IF line.kind # "json" THEN DecodeErr
  ELSE IF line.val.t = "obj" THEN DecodeMap(line.val)
  ELSE IF line.val.t = "arr" THEN DecodeSeq(line.val)
  ELSE DecodeErr

(* ---------------------------- words ------------------------------------ *)
S_floor         == <<"f", "l", "o", "o", "r">>
S_nroot         == <<"n", "r", "o", "o", "t">>
S_reverse       == <<"r", "e", "v", "e", "r", "s", "e">>
S_valid_anagram == <<"v", "a", "l", "i", "d", "_", "a", "n", "a", "g", "r", "a", "m">>
S_sort          == <<"s", "o", "r", "t">>
S_int           == <<"i", "n", "t">>
S_double        == <<"d", "o", "u", "b", "l", "e">>
S_string        == <<"s", "t", "r", "i", "n", "g">>
S_bool          == <<"b", "o", "o", "l">>
S_true          == <<"t", "r", "u", "e">>
S_false         == <<"f", "a", "l", "s", "e">>
S_inf           == <<"i", "n", "f">>
S_NaN           == <<"N", "a", "N">>
S_result        == <<"r", "e", "s", "u", "l", "t">>
S_result_type   == <<"r", "e", "s", "u", "l", "t", "_", "t", "y", "p", "e">>
S_id            == <<"i", "d">>
S_error         == <<"e", "r", "r", "o", "r">>
S_code          == <<"c", "o", "d", "e">>
S_message       == <<"m", "e", "s", "s", "a", "g", "e">>
S_InvalidParams == <<"I", "n", "v", "a", "l", "i", "d", " ", "p", "a", "r", "a", "m", "s">>
S_MethodNotFound ==
  <<"M", "e", "t", "h", "o", "d", " ", "n", "o", "t", " ", "f", "o", "u", "n", "d">>

(* ---------------------------- leaf methods ----------------------------- *)
\* Result<(String, String), String>
Ok(result, result_type) ==
  [ok |-> TRUE, result |-> result, result_type |-> result_type, err |-> <<>>]
Err(msg) == [ok |-> FALSE, result |-> <<>>, result_type |-> <<>>, err |-> msg]

\* variant: the fraction cut off, as a cast to an integer does
floor_trunc(t) ==
  IF IsBig(t) THEN t ELSE IF t < 0 THEN -((-t) \div 10) ELSE t \div 10

\* f64::floor of t/10, as an integer
floor(t) == IF IsBig(t) THEN t ELSE t \div 10

rpc_floor(params) ==
  IF has_first(params) /\ is_f64(params.a[1])
  THEN Ok(RenderInt(floor(as_f64(params.a[1]))), S_int)
  ELSE Err(S_InvalidParams)

\* x.powf(1.0 / n) for n/10 and x/10.  Exact where IEEE 754 fixes the
\* result (n = 0 gives the exponent +inf, n = 1 the exponent 1, n = 2 the
\* exponent 0.5 on perfect squares and on negative bases); any other
\* result is kept as the unevaluated term, one term per pair (n, x).
powf_inv(n, x) ==
  IF n = 0 THEN (IF Abs(x) > 10 THEN S_inf ELSE IF Abs(x) = 10 THEN <<"1">> ELSE <<"0">>)
  ELSE IF n = 10 THEN RenderF64(x)
  ELSE IF n = 20 /\ x < 0 THEN S_NaN
  ELSE IF n = 20 /\ ~IsBig(x) /\ \E k \in 0..Abs(x) : 10 * k * k = x
       THEN RenderInt(CHOOSE k \in 0..Abs(x) : 10 * k * k = x)
  ELSE <<"p", "o", "w", "f", "(">> \o RenderF64(x) \o <<",", "1", "/">>
         \o RenderF64(n) \o <<")">>

rpc_nroot(params) ==
  IF has_second(params) /\ is_f64(params.a[1]) /\ is_f64(params.a[2])
  THEN Ok(powf_inv(as_f64(params.a[1]), as_f64(params.a[2])), S_double)
  ELSE Err(S_InvalidParams)

\* variant: the order of the characters kept
Reverse_kept(str) == str

\* str.chars().rev().collect()
Reverse(str) == [i \in 1..Len(str) |-> str[Len(str) + 1 - i]]

rpc_reverse(params) ==
  IF has_first(params) /\ is_str(params.a[1])
  THEN Ok(Reverse(params.a[1].s), S_string)
  ELSE Err(S_InvalidParams)

\* Vec<char>::sort: ascending code points
RECURSIVE InsertChar(_, _)
InsertChar(ch, sorted) ==
  IF sorted = <<>> THEN <<ch>>
  ELSE IF CharCode(ch) <= CharCode(sorted[1]) THEN <<ch>> \o sorted
  ELSE <<sorted[1]>> \o InsertChar(ch, Tail(sorted))

RECURSIVE SortChars(_)
SortChars(str) ==
  IF str = <<>> THEN <<>> ELSE InsertChar(str[1], SortChars(Tail(str)))

\* variant: the characters compared as sets
rpc_valid_anagram_set(params) ==
  IF has_second(params) /\ is_str(params.a[1]) /\ is_str(params.a[2])
  THEN Ok(IF {params.a[1].s[i] : i \in 1..Len(params.a[1].s)}
               = {params.a[2].s[i] : i \in 1..Len(params.a[2].s)}
          THEN S_true ELSE S_false, S_bool)
  ELSE Err(S_InvalidParams)

rpc_valid_anagram(params) ==
  IF has_second(params) /\ is_str(params.a[1]) /\ is_str(params.a[2])
  THEN Ok(IF SortChars(params.a[1].s) = SortChars(params.a[2].s)
          THEN S_true ELSE S_false, S_bool)
  ELSE Err(S_InvalidParams)

\* String's Ord: lexicographic by code point, a proper prefix sorts first
RECURSIVE StrLeq(_, _)
StrLeq(x, y) ==
  IF x = <<>> THEN TRUE
  ELSE IF y = <<>> THEN FALSE
  ELSE IF CharCode(x[1]) < CharCode(y[1]) THEN TRUE
  ELSE IF CharCode(x[1]) > CharCode(y[1]) THEN FALSE
  ELSE StrLeq(Tail(x), Tail(y))

RECURSIVE InsertStr(_, _)
InsertStr(x, sorted) ==
  IF sorted = <<>> THEN <<x>>
  ELSE IF StrLeq(x, sorted[1]) THEN <<x>> \o sorted
  ELSE <<sorted[1]>> \o InsertStr(x, Tail(sorted))

\* Vec<String>::sort
RECURSIVE SortStrings(_)
SortStrings(strs) ==
  IF strs = <<>> THEN <<>> ELSE InsertStr(strs[1], SortStrings(Tail(strs)))

(* ---------------------------- JSON text -------------------------------- *)
\* variant: characters copied between the quotes as they are
EscapeChar_raw(ch) == <<ch>>

\* serde_json's string escaping of the characters the model uses
EscapeChar(ch) ==
  IF ch = DQ THEN <<BS, DQ>>
  ELSE IF ch = BS THEN <<BS, BS>>
  ELSE IF ch = NL THEN <<BS, "n">>
  ELSE <<ch>>

RECURSIVE Escape(_)
Escape(str) ==
  IF str = <<>> THEN <<>> ELSE EscapeChar(str[1]) \o Escape(Tail(str))

Quote(str) == <<DQ>> \o Escape(str) \o <<DQ>>

RECURSIVE JoinQuoted(_)
JoinQuoted(strs) ==
  IF strs = <<>> THEN <<>>
  ELSE IF Len(strs) = 1 THEN Quote(strs[1])
  ELSE Quote(strs[1]) \o <<",">> \o JoinQuoted(Tail(strs))

\* serde_json::to_string(&Vec<String>)
to_string_strings(strs) == <<"[">> \o JoinQuoted(strs) \o <<"]">>

\* variant: sorted in descending order
rpc_sort_desc(params) ==
  IF has_first(params) /\ is_array(params.a[1])
  THEN IF AllStr(params.a[1].a)
       THEN Let(Reverse(SortStrings([i \in 1..Len(params.a[1].a) |-> params.a[1].a[i].s])),
                LAMBDA strings : Ok(to_string_strings(strings), S_string))
       ELSE Err(S_InvalidParams)
  ELSE Err(S_InvalidParams)

rpc_sort(params) ==
  IF has_first(params) /\ is_array(params.a[1])
  THEN IF AllStr(params.a[1].a)
       THEN Let(SortStrings([i \in 1..Len(params.a[1].a) |-> params.a[1].a[i].s]),
                LAMBDA strings : Ok(to_string_strings(strings), S_string))
       ELSE Err(S_InvalidParams)
  ELSE Err(S_InvalidParams)

(* ---------------------------- registry --------------------------------- *)
\* variant: one insert missing
create_method_table_short ==
  (S_floor :> "rpc_floor") @@ (S_nroot :> "rpc_nroot")
    @@ (S_reverse :> "rpc_reverse")
    @@ (S_valid_anagram :> "rpc_valid_anagram")

create_method_table ==
  (S_floor :> "rpc_floor") @@ (S_nroot :> "rpc_nroot")
    @@ (S_reverse :> "rpc_reverse")
    @@ (S_valid_anagram :> "rpc_valid_anagram") @@ (S_sort :> "rpc_sort")

\* calling a fn(&Value) -> Result<(String, String), String> pointer
method_fn(f, params) ==
  CASE f = "rpc_floor"         -> rpc_floor(params)
    [] f = "rpc_nroot"         -> rpc_nroot(params)
    [] f = "rpc_reverse"       -> rpc_reverse(params)
    [] f = "rpc_valid_anagram" -> rpc_valid_anagram(params)
    [] f = "rpc_sort"          -> rpc_sort(params)

(* ---------------------------- responses -------------------------------- *)
RpcResponse(result, result_type, id) ==
  [result |-> result, result_type |-> result_type, id |-> id]
RpcErrorResponse(code, message, id) ==
  [code |-> code, message |-> message, id |-> id]

\* serde_json::to_string of the two response structs, fields in
\* declaration order
to_string_response(r) ==
  <<"{">> \o Quote(S_result) \o <<":">> \o Quote(r.result)
    \o <<",">> \o Quote(S_result_type) \o <<":">> \o Quote(r.result_type)
    \o <<",">> \o Quote(S_id) \o <<":">> \o RenderInt(r.id) \o <<"}">>

to_string_error(e) ==
  <<"{">> \o Quote(S_error) \o <<":", "{">> \o Quote(S_code) \o <<":">>
    \o RenderInt(e.code)
    \o <<",">> \o Quote(S_message) \o <<":">> \o Quote(e.message) \o <<"}">>
    \o <<",">> \o Quote(S_id) \o <<":">> \o RenderInt(e.id) \o <<"}">>

\* variant: the terminator forgotten
format_line_bare(json) == json

\* format!("{}\n", json)
format_line(json) == json \o <<NL>>

\* variant: responses numbered by a counter of connections
response_id_counter(request) == Len(accepted)

\* the id copied into a response built from a decoded request
response_id(request) == request.id

\* variants of the definitions below with one plausible slip each
success_response_id0(request, r) == RpcResponse(r.result, r.result_type, 0)
not_found_response_invalid(request) ==
  RpcErrorResponse(-32602, S_InvalidParams, response_id(request))

\* variant: the code of the branch below copied into this one
method_error_response_601(request, err_msg) ==
  RpcErrorResponse(-32601, err_msg, response_id(request))

\* the four response values the loop body builds
success_response(request, r) ==
  RpcResponse(r.result, r.result_type, response_id(request))
method_error_response(request, err_msg) ==
  RpcErrorResponse(-32602, err_msg, response_id(request))
not_found_response(request) ==
  RpcErrorResponse(-32601, S_MethodNotFound, response_id(request))
decode_error_response == RpcErrorResponse(-32602, S_InvalidParams, 0)

\* The body of the Ok(_) arm of read_line: decode, look up, call, encode.
\* path names the branch taken, resp the response struct built there and
\* writes the messages handed to write_all.
handle_line(table, line) ==
  Let(from_str(line), LAMBDA request :
    IF request.ok
    THEN IF request.method \in DOMAIN table
         THEN Let(method_fn(table[request.method], request.params), LAMBDA r :
                IF r.ok
                THEN [path |-> "success",
                      resp |-> success_response(request, r),
                      writes |-> <<format_line(to_string_response(
                                     success_response(request, r)))>>]
                ELSE [path |-> "method_error",
                      resp |-> method_error_response(request, r.err),
                      writes |-> <<format_line(to_string_error(
                                     method_error_response(request, r.err)))>>])
         ELSE [path |-> "not_found",
               resp |-> not_found_response(request),
               writes |-> <<format_line(to_string_error(
                              not_found_response(request)))>>]
    ELSE [path |-> "decode_error",
          resp |-> decode_error_response,
          writes |-> <<format_line(to_string_error(decode_error_response))>>])

(* ---------------------------- inputs ----------------------------------- *)
Req(m, p, i) ==
  JsonLine(JObj(<<Field("method", m), Field("params", p), Field("id", i)>>))

S_ab  == <<"a", "b">>
S_ba  == <<"b", "a">>
S_abc == <<"a", "b", "c">>
S_Bq  == <<"B", DQ>>
S_anl == <<"a", NL, BS>>

\* lines clients put on the wire in the connection-level specification
WireLines ==
  { Req(JStr(S_reverse), JArr(<<JStr(S_anl)>>), JInt(1)),
    Req(JStr(S_sort), JArr(<<JArr(<<JStr(S_anl), JStr(S_Bq)>>)>>), JInt(0)),
    Req(JStr(S_nroot), JArr(<<JInt(2)>>), JInt(3)),
    Req(JStr(S_ab), JArr(<<>>), JInt(4)),
    Req(JInt(5), JNull, JInt(7)),
    Garbage }

\* inputs of the handler-level specification
Elems ==
  { JInt(2), JInt(16), JInt(0), JFloat(37), JFloat(-32),
    JStr(S_ab), JStr(S_ba), JStr(S_abc), JStr(<<>>),
    JBool(TRUE),
    JArr(<<JStr(S_ba), JStr(S_Bq), JStr(S_ab)>>),
    JArr(<<JStr(S_ab), JInt(1)>>),
    JArr(<<>>) }

Trailing == { JInt(2) }

ParamValues ==
  { JNull, JInt(3), JStr(S_ab), JBool(FALSE), JObj(<<>>), JArr(<<>>) }
    \cup { JArr(<<x>>) : x \in Elems }
    \cup { JArr(<<x, y>>) : x \in Elems, y \in Elems }
    \cup { JArr(<<x, y, z>>) : x \in Elems, y \in Elems, z \in Trailing }

MethodNames ==
  { S_floor, S_nroot, S_reverse, S_valid_anagram, S_sort,
    S_ab, <<>>, <<"F", "l", "o", "o", "r">> }

Ids == { 0, 42 }

WellFormedLines ==
  { Req(JStr(m), p, JInt(i)) : m \in MethodNames, p \in ParamValues, i \in Ids }

P1 == JArr(<<JFloat(37)>>)

\* other lines: decodable variants and every kind of decode failure
OddLines ==
  { \* decodable: param_types given, unknown key, array form
    JsonLine(JObj(<<Field("id", JInt(1)), Field("param_types", JArr(<<JStr(S_int)>>)),
                    Field("params", P1), Field("method", JStr(S_floor))>>)),
    JsonLine(JObj(<<Field("method", JStr(S_floor)), Field("params", P1),
                    Field("param_types", JNull), Field("id", JInt(1))>>)),
    JsonLine(JObj(<<Field("method", JStr(S_floor)), Field("extra", JInt(9)),
                    Field("params", P1), Field("id", JInt(42))>>)),
    JsonLine(JArr(<<JStr(S_floor), P1, JNull, JInt(42)>>)),
    \* not JSON at all
    Garbage,
    \* JSON, but not the Request shape
    JsonLine(JNull), JsonLine(JInt(3)), JsonLine(JStr(S_floor)), JsonLine(JObj(<<>>)),
    JsonLine(JArr(<<JStr(S_floor), P1, JInt(42)>>)),
    JsonLine(JArr(<<JStr(S_floor), P1, JNull, JInt(42), JInt(1)>>)),
    JsonLine(JObj(<<Field("params", P1), Field("id", JInt(42))>>)),
    JsonLine(JObj(<<Field("method", JStr(S_floor)), Field("id", JInt(42))>>)),
    JsonLine(JObj(<<Field("method", JStr(S_floor)), Field("params", P1)>>)),
    Req(JInt(5), P1, JInt(42)), Req(JNull, P1, JInt(42)),
    Req(JArr(<<JStr(S_floor)>>), P1, JInt(42)),
    Req(JStr(S_floor), P1, JInt(-1)), Req(JStr(S_floor), P1, JFloat(10)),
    Req(JStr(S_floor), P1, JFloat(15)), Req(JStr(S_floor), P1, JStr(<<"1">>)),
    Req(JStr(S_floor), P1, JNull), Req(JStr(S_ab), P1, JInt(-1)),
    JsonLine(JObj(<<Field("method", JStr(S_floor)), Field("params", P1),
                    Field("id", JInt(1)), Field("id", JInt(42))>>)),
    JsonLine(JObj(<<Field("method", JStr(S_floor)), Field("params", P1),
                    Field("param_types", JInt(1)), Field("id", JInt(42))>>)),
    JsonLine(JObj(<<Field("method", JStr(S_floor)), Field("params", P1),
                    Field("param_types", JArr(<<JInt(1)>>)), Field("id", JInt(42))>>)) }

AllLines == WellFormedLines \cup OddLines \cup WireLines

\* inputs of the method-level specification
S_aab == <<"a", "a", "b">>
S_aba == <<"a", "b", "a">>
S_abb == <<"a", "b", "b">>
S_baa == <<"b", "a", "a">>
S_cba == <<"c", "b", "a">>
S_lna == <<BS, NL, "a">>

\* params no method accepts
BadParams ==
  { JNull, JObj(<<>>), JArr(<<>>), JArr(<<JBool(TRUE)>>) }

MNumbers ==
  { JInt(0), JInt(2), JInt(-3), JFloat(37), JFloat(-32), JFloat(-30),
    JFloat(5), JFloat(-5),
    JInt(BigBase), JInt(BigBase + 1), JInt(BigBase + 2), JInt(BigBase + 3) }

FloorParams ==
  { JArr(<<x>>) : x \in MNumbers }
    \cup { JArr(<<x, y>>) : x \in {JFloat(37), JFloat(-32)},
                            y \in {JInt(2), JStr(S_ab)} }
    \cup { JArr(<<JStr(<<"3">>)>>) }

NrootParams ==
  { JArr(<<n, x>>) : n \in {JInt(0), JInt(1), JInt(2)},
                     x \in {JInt(16), JFloat(5), JInt(-4)} }
    \cup { JArr(<<JInt(2), JInt(16), y>>) : y \in {JInt(2), JStr(S_ab)} }
    \cup { JArr(<<JInt(2)>>), JArr(<<JInt(2), JStr(S_ab)>>),
           JArr(<<JStr(S_ab), JInt(2)>>) }

MStrings == { <<>>, S_ab, S_ba, S_abc, S_cba, S_aab, S_baa, S_aba, S_anl, S_lna }

ReverseParams ==
  { JArr(<<JStr(x)>>) : x \in MStrings }
    \cup { JArr(<<JStr(x), y>>) : x \in {S_abc, S_cba}, y \in {JInt(2), JStr(S_ab)} }
    \cup { JArr(<<JInt(2), JStr(S_ab)>>) }

AStrings == { <<>>, S_aab, S_aba, S_abb }

AnagramParams ==
  { JArr(<<JStr(x), JStr(y)>>) : x \in AStrings, y \in AStrings }
    \cup { JArr(<<JStr(S_aab), JStr(S_aba), y>>) : y \in {JInt(2), JStr(S_ab)} }
    \cup { JArr(<<JStr(S_ab), JStr(S_aab)>>), JArr(<<JStr(S_aab), JStr(S_ab)>>),
           JArr(<<JStr(S_ab)>>), JArr(<<JStr(S_ab), JInt(2)>>),
           JArr(<<JInt(2), JStr(S_ab)>>) }

SStrings == { S_ab, S_abc, S_ba }

\* arrays of strings, the sorted form of each among them
SortArrays ==
  { <<>> } \cup { <<x>> : x \in SStrings }
    \cup { <<x, y>> : x \in SStrings, y \in SStrings }
    \cup { <<S_ba, S_ab, S_ab>>, <<S_ab, S_ab, S_ba>>,
           <<S_ba, S_abc, S_ab>>, <<S_ab, S_abc, S_ba>>,
           <<S_ba, S_Bq>>, <<S_Bq, S_ba>> }

StrArr(strs) == JArr([i \in 1..Len(strs) |-> JStr(strs[i])])

SortParams ==
  { JArr(<<StrArr(x)>>) : x \in SortArrays }
    \cup { JArr(<<StrArr(<<S_ba, S_ab>>), y>>) : y \in {JInt(2), JStr(S_ab)} }
    \cup { JArr(<<JArr(<<JStr(S_ab), JInt(1)>>)>>), JArr(<<JStr(S_ab)>>) }

MCallsOf(name, ps) == { [name |-> name, params |-> p] : p \in ps \cup BadParams }

MCalls ==
  MCallsOf(S_floor, FloorParams) \cup MCallsOf(S_nroot, NrootParams)
    \cup MCallsOf(S_reverse, ReverseParams)
    \cup MCallsOf(S_valid_anagram, AnagramParams)
    \cup MCallsOf(S_sort, SortParams)

(* ---------------------------- initial state ---------------------------- *)
Conns == 1..MaxConns

NoCall == [name |-> <<>>, params |-> JNull, res |-> Err(<<>>)]
NoOut == [path |-> "none", resp |-> <<>>, writes |-> <<>>]

Init ==
  /\ method_table = create_method_table
  /\ pc = "accept"
  /\ cur = 0
  /\ backlog = <<>>
  /\ accepted = <<>>
  /\ cst = [c \in Conns |-> "idle"]
  /\ nsent = [c \in Conns |-> 0]
  /\ partial = [c \in Conns |-> FALSE]
  /\ cclosed = [c \in Conns |-> FALSE]
  /\ nread = [c \in Conns |-> 0]
  /\ rres = [c \in Conns |-> "none"]
  /\ lines = [c \in Conns |-> NoLine]
  /\ out = [c \in Conns |-> <<>>]
  /\ hline = NoLine
  /\ hstage = "idle"
  /\ hout = NoOut
  /\ mcall = NoCall
  /\ mprev = NoCall

(* ---------------------------- clients ---------------------------------- *)
\* connect(): the kernel queues the connection until accept takes it.
\* Connections are numbered in the order in which they connect.
Connect(c) ==
  /\ cst[c] = "idle"
  /\ \A d \in 1..(c - 1) : cst[d] # "idle"
  /\ pc # "exit"
  /\ cst' = [cst EXCEPT ![c] = "queued"]
  /\ backlog' = Append(backlog, c)
  /\ UNCHANGED <<method_table, pc, cur, accepted, nsent, partial,
                 cclosed, nread, rres, lines, out, hvars>>

Open(c) == cst[c] \in {"queued", "serving"} /\ ~cclosed[c]

\* the client sends one more line, with its terminator or (term = FALSE)
\* without it
ClientSend(c, term) ==
  /\ Open(c)
  /\ ~partial[c]
  /\ nsent[c] < MaxLines
  /\ IF term
     THEN nsent' = [nsent EXCEPT ![c] = @ + 1] /\ UNCHANGED partial
     ELSE partial' = [partial EXCEPT ![c] = TRUE] /\ UNCHANGED nsent
  /\ UNCHANGED <<method_table, pc, cur, backlog, accepted, cst,
                 cclosed, nread, rres, lines, out, hvars>>

\* the client sends the terminator of the line it left unfinished
ClientFinish(c) ==
  /\ Open(c)
  /\ partial[c]
  /\ partial' = [partial EXCEPT ![c] = FALSE]
  /\ nsent' = [nsent EXCEPT ![c] = @ + 1]
  /\ UNCHANGED <<method_table, pc, cur, backlog, accepted, cst,
                 cclosed, nread, rres, lines, out, hvars>>

\* the client closes (or half-closes) its writing side
ClientClose(c) ==
  /\ Open(c)
  /\ cclosed' = [cclosed EXCEPT ![c] = TRUE]
  /\ UNCHANGED <<method_table, pc, cur, backlog, accepted, cst,
                 nsent, partial, nread, rres, lines, out, hvars>>

(* ---------------------------- accept loop ------------------------------ *)
\* variants: a transport error ends the loop; a handled line keeps the
\* connection for another read
next_pc_fatal(event) ==
  IF event \in {"accept_err", "read_err", "write_err"} THEN "exit" ELSE "accept"
next_pc_keepalive(event) ==
  IF event \in {"success", "method_error", "not_found", "decode_error", "write_err"}
  THEN "read" ELSE "accept"

\* variant: after the end of the stream the same stream is read again
next_pc_eof_reads(event) == IF event = "eof" THEN "read" ELSE "accept"

\* Every arm of the two matches ends the loop body: the next thing the
\* loop does is accept again.
next_pc(event) == "accept"

\* the stream, its reader and the line buffer go out of scope
Release(c, pcnext) ==
  IF pcnext = "read"
  THEN UNCHANGED <<cur, cst, partial, cclosed>>
  ELSE /\ cur' = 0
       /\ cst' = [cst EXCEPT ![c] = "dropped"]
       /\ partial' = [partial EXCEPT ![c] = FALSE]
       /\ cclosed' = [cclosed EXCEPT ![c] = FALSE]

\* variant: the next connection taken while the current one is being read
Accept_overlap ==
  /\ pc \in {"accept", "read"}
  /\ backlog # <<>>
  /\ cur' = Head(backlog)
  /\ backlog' = Tail(backlog)
  /\ accepted' = Append(accepted, Head(backlog))
  /\ cst' = [cst EXCEPT ![Head(backlog)] = "serving"]
  /\ pc' = "read"
  /\ UNCHANGED <<method_table, nsent, partial, cclosed, nread,
                 rres, lines, out, hvars>>

\* listener.accept() returns Ok((stream, _addr))
Accept ==
  /\ pc = "accept"
  /\ backlog # <<>>
  /\ cur' = Head(backlog)
  /\ backlog' = Tail(backlog)
  /\ accepted' = Append(accepted, Head(backlog))
  /\ cst' = [cst EXCEPT ![Head(backlog)] = "serving"]
  /\ pc' = "read"
  /\ UNCHANGED <<method_table, nsent, partial, cclosed, nread,
                 rres, lines, out, hvars>>

\* listener.accept() returns Err(e): the error is printed, nothing is kept
AcceptFail ==
  /\ pc = "accept"
  /\ pc' = next_pc("accept_err")
  /\ UNCHANGED <<method_table, cur, backlog, accepted, cst, nsent, partial,
                 cclosed, nread, rres, lines, out, hvars>>

\* a whole line is buffered, or the stream ended after unterminated bytes
LineReady(c) ==
  \/ nread[c] < nsent[c]
  \/ nread[c] = nsent[c] /\ partial[c] /\ cclosed[c]

\* the stream ended and no byte is left
AtEof(c) == nread[c] = nsent[c] /\ ~partial[c] /\ cclosed[c]

\* reader.read_line(&mut lines) returns Ok(n), n > 0; l is what it read
ReadLine(l) ==
  /\ pc = "read"
  /\ LineReady(cur)
  /\ lines' = [lines EXCEPT ![cur] = l]
  /\ nread' = [nread EXCEPT ![cur] = @ + 1]
  /\ partial' = [partial EXCEPT ![cur] =
                   IF nread[cur] < nsent[cur] THEN @ ELSE FALSE]
  /\ rres' = [rres EXCEPT ![cur] = "line"]
  /\ pc' = "handle"
  /\ UNCHANGED <<method_table, cur, backlog, accepted, cst, nsent,
                 cclosed, out, hvars>>

\* reader.read_line returns Ok(0)
ReadEof ==
  /\ pc = "read"
  /\ AtEof(cur)
  /\ rres' = [rres EXCEPT ![cur] = "eof"]
  /\ pc' = next_pc("eof")
  /\ Release(cur, pc')
  /\ UNCHANGED <<method_table, backlog, accepted, nsent, nread,
                 lines, out, hvars>>

\* reader.read_line returns Err(e): the transport failed or the bytes are
\* not UTF-8
ReadErr ==
  /\ pc = "read"
  /\ rres' = [rres EXCEPT ![cur] = "err"]
  /\ pc' = next_pc("read_err")
  /\ Release(cur, pc')
  /\ UNCHANGED <<method_table, backlog, accepted, nsent, nread,
                 lines, out, hvars>>

\* the Ok(_) arm: decode, dispatch, encode and write_all, whose result w
\* is ignored or only logged
Handle(w) ==
  /\ pc = "handle"
  /\ LET h == handle_line(method_table, lines[cur]) IN
       /\ out' = [out EXCEPT ![cur] = @ \o h.writes]
       /\ pc' = next_pc(IF w = "err" THEN "write_err" ELSE h.path)
  /\ Release(cur, pc')
  /\ UNCHANGED <<method_table, backlog, accepted, nsent, nread,
                 rres, lines, hvars>>

(* ---------------------------- handler alone --------------------------- *)
\* one line is put before the loop body
HFeed(l) ==
  /\ hstage = "idle"
  /\ hline' = l
  /\ hstage' = "fed"
  /\ UNCHANGED <<hout, srvvars, mvars>>

\* the loop body runs on it
HRun ==
  /\ hstage = "fed"
  /\ hout' = handle_line(method_table, hline)
  /\ hstage' = "done"
  /\ UNCHANGED <<hline, srvvars, mvars>>

HNext == (\E l \in AllLines : HFeed(l)) \/ HRun

HSpec == Init /\ [][HNext]_vars

(* ---------------------------- methods alone --------------------------- *)
\* method(&request.params): the function registered under name is called
\* on params; the call before it is kept for comparison
MCall(name, params) ==
  /\ name \in DOMAIN method_table
  /\ mprev' = mcall
  /\ mcall' = [name |-> name, params |-> params,
               res |-> method_fn(method_table[name], params)]
  /\ UNCHANGED <<srvvars, hline, hstage, hout>>

MNext == \E c \in MCalls : MCall(c.name, c.params)

MSpec == Init /\ [][MNext]_vars

Next ==
  \/ \E c \in Conns : Connect(c)
  \/ \E c \in Conns, term \in BOOLEAN : ClientSend(c, term)
  \/ \E c \in Conns : ClientFinish(c)
  \/ \E c \in Conns : ClientClose(c)
  \/ Accept
  \/ AcceptFail
  \/ \E l \in WireLines : ReadLine(l)
  \/ ReadEof
  \/ ReadErr
  \/ \E w \in {"ok", "err"} : Handle(w)

Spec == Init /\ [][Next]_vars

\* what the loop does on its own once it can: the runtime resumes the
\* task whenever the future it awaits is ready
ServerStep ==
  \/ Accept
  \/ \E l \in WireLines : ReadLine(l)
  \/ ReadEof
  \/ \E w \in {"ok", "err"} : Handle(w)

FairSpec == Spec /\ WF_vars(ServerStep)

(* ---------------------------- reading the wire ------------------------ *)
\* What a client sees when it parses a message as JSON text: the readers
\* below are written from the wire shapes, independently of the encoder.
PFail == [ok |-> FALSE, val |-> <<>>, num |-> 0, next |-> 0]

Expect(msg, i, lit) ==
  /\ i + Len(lit) - 1 <= Len(msg)
  /\ SubSeq(msg, i, i + Len(lit) - 1) = lit

\* the body of a JSON string, from the character after the opening quote
RECURSIVE ReadStrBody(_, _, _)
ReadStrBody(msg, i, acc) ==
  IF i > Len(msg) THEN PFail
  ELSE IF msg[i] = DQ THEN [ok |-> TRUE, val |-> acc, num |-> 0, next |-> i + 1]
  ELSE IF msg[i] = NL THEN PFail
  ELSE IF msg[i] = BS
       THEN IF i + 1 > Len(msg) THEN PFail
            ELSE IF msg[i + 1] = "n" THEN ReadStrBody(msg, i + 2, Append(acc, NL))
            ELSE IF msg[i + 1] \in {DQ, BS}
                 THEN ReadStrBody(msg, i + 2, Append(acc, msg[i + 1]))
            ELSE PFail
  ELSE ReadStrBody(msg, i + 1, Append(acc, msg[i]))

ReadStr(msg, i) ==
  IF i <= Len(msg) /\ msg[i] = DQ THEN ReadStrBody(msg, i + 1, <<>>) ELSE PFail

DigitSet == {"0", "1", "2", "3", "4", "5", "6", "7", "8", "9"}
DigitVal(ch) == CHOOSE d \in 0..9 : DigitChar(d) = ch

RECURSIVE ReadDigits(_, _, _)
ReadDigits(msg, i, acc) ==
  IF i <= Len(msg) /\ msg[i] \in DigitSet
  THEN ReadDigits(msg, i + 1, 10 * acc + DigitVal(msg[i]))
  ELSE [ok |-> TRUE, val |-> <<>>, num |-> acc, next |-> i]

ReadNat(msg, i) ==
  IF i <= Len(msg) /\ msg[i] \in DigitSet THEN ReadDigits(msg, i, 0) ELSE PFail

ReadInt(msg, i) ==
  IF i <= Len(msg) /\ msg[i] = "-"
  THEN LET r == ReadNat(msg, i + 1) IN
       IF r.ok THEN [r EXCEPT !.num = -r.num] ELSE PFail
  ELSE ReadNat(msg, i)

WireBad == [shape |-> "bad", id |-> 0, result |-> <<>>, result_type |-> <<>>,
            code |-> 0, message |-> <<>>]

L_result      == <<"{", DQ, "r", "e", "s", "u", "l", "t", DQ, ":">>
L_result_type == <<",", DQ, "r", "e", "s", "u", "l", "t", "_", "t", "y", "p", "e", DQ, ":">>
L_id          == <<",", DQ, "i", "d", DQ, ":">>
L_error       == <<"{", DQ, "e", "r", "r", "o", "r", DQ, ":", "{",
                   DQ, "c", "o", "d", "e", DQ, ":">>
L_message     == <<",", DQ, "m", "e", "s", "s", "a", "g", "e", DQ, ":">>

\* {"result":<string>,"result_type":<string>,"id":<integer>} and "\n"
ReadSuccess(msg) ==
  IF ~Expect(msg, 1, L_result) THEN WireBad ELSE
  LET r == ReadStr(msg, Len(L_result) + 1) IN
  IF ~r.ok \/ ~Expect(msg, r.next, L_result_type) THEN WireBad ELSE
  LET t == ReadStr(msg, r.next + Len(L_result_type)) IN
  IF ~t.ok \/ ~Expect(msg, t.next, L_id) THEN WireBad ELSE
  LET i == ReadNat(msg, t.next + Len(L_id)) IN
  IF ~i.ok \/ ~Expect(msg, i.next, <<"}", NL>>) \/ i.next + 1 # Len(msg) THEN WireBad
  ELSE [shape |-> "success", id |-> i.num, result |-> r.val,
        result_type |-> t.val, code |-> 0, message |-> <<>>]

\* {"error":{"code":<integer>,"message":<string>},"id":<integer>} and "\n"
ReadError(msg) ==
  IF ~Expect(msg, 1, L_error) THEN WireBad ELSE
  LET c == ReadInt(msg, Len(L_error) + 1) IN
  IF ~c.ok \/ ~Expect(msg, c.next, L_message) THEN WireBad ELSE
  LET m == ReadStr(msg, c.next + Len(L_message)) IN
  IF ~m.ok \/ ~Expect(msg, m.next, <<"}">> \o L_id) THEN WireBad ELSE
  LET i == ReadNat(msg, m.next + 1 + Len(L_id)) IN
  IF ~i.ok \/ ~Expect(msg, i.next, <<"}", NL>>) \/ i.next + 1 # Len(msg) THEN WireBad
  ELSE [shape |-> "error", id |-> i.num, result |-> <<>>,
        result_type |-> <<>>, code |-> c.num, message |-> m.val]

Wire(msg) ==
  IF ReadSuccess(msg).shape = "success" THEN ReadSuccess(msg) ELSE ReadError(msg)

\* the single message written on a connection, "bad" unless exactly one
WireOf(writes) == IF Len(writes) = 1 THEN Wire(writes[1]) ELSE WireBad

IsError(w, code, message, id) ==
  w.shape = "error" /\ w.code = code /\ w.message = message /\ w.id = id

(* ---------------------------- the request as sent ---------------------- *)
\* The fields of a request line, read off the JSON text the client sent.
FiveNames == {S_floor, S_nroot, S_reverse, S_valid_anagram, S_sort}

SentField(line, key, pos) ==
  IF line.kind # "json" THEN <<>>
  ELSE IF line.val.t = "obj"
       THEN LET fs == FieldVals(line.val, key) IN [j \in 1..Len(fs) |-> fs[j].v]
  ELSE IF line.val.t = "arr" /\ Len(line.val.a) = 4 THEN <<line.val.a[pos]>>
  ELSE <<>>

SentMethod(line) == SentField(line, "method", 1)
SentParams(line) == SentField(line, "params", 2)
SentTypes(line)  == SentField(line, "param_types", 3)
SentId(line)     == SentField(line, "id", 4)

\* the line conforms to the Request shape
Conforms(line) ==
  /\ line.kind = "json"
  /\ line.val.t \in {"obj", "arr"}
  /\ Len(SentMethod(line)) = 1 /\ SentMethod(line)[1].t = "str"
  /\ Len(SentParams(line)) = 1
  /\ Len(SentId(line)) = 1 /\ SentId(line)[1].t = "int" /\ SentId(line)[1].n >= 0
  /\ Len(SentTypes(line)) <= 1
  /\ \A j \in 1..Len(SentTypes(line)) :
       \/ SentTypes(line)[j].t = "null"
       \/ /\ SentTypes(line)[j].t = "arr"
          /\ \A e \in 1..Len(SentTypes(line)[j].a) : SentTypes(line)[j].a[e].t = "str"

MethodOf(line) == SentMethod(line)[1].s
ParamsOf(line) == SentParams(line)[1]
IdOf(line)     == SentId(line)[1].n

IsNumber(v) == v.t \in {"int", "float"}

\* the leading elements a method reads are present and of the right type
LeadingOk(m, p) ==
  /\ p.t = "arr"
  /\ CASE m = S_floor   -> Len(p.a) >= 1 /\ IsNumber(p.a[1])
       [] m = S_nroot   -> Len(p.a) >= 2 /\ IsNumber(p.a[1]) /\ IsNumber(p.a[2])
       [] m = S_reverse -> Len(p.a) >= 1 /\ p.a[1].t = "str"
       [] m = S_valid_anagram ->
            Len(p.a) >= 2 /\ p.a[1].t = "str" /\ p.a[2].t = "str"
       [] m = S_sort ->
            /\ Len(p.a) >= 1 /\ p.a[1].t = "arr"
            /\ \A e \in 1..Len(p.a[1].a) : p.a[1].a[e].t = "str"
       [] OTHER -> FALSE

Arity(m) == IF m \in {S_nroot, S_valid_anagram} THEN 2 ELSE 1

\* params are exactly the positional arguments of the method's contract
ExactOk(m, p) == LeadingOk(m, p) /\ Len(p.a) = Arity(m)

\* a connection whose line has been handled
Handled(c) == cst[c] = "dropped" /\ rres[c] = "line"

(* ---------------------------- claims ----------------------------------- *)
\* a request line naming one of the five methods with params it accepts
Acceptable(line) ==
  /\ Conforms(line)
  /\ MethodOf(line) \in FiveNames
  /\ LeadingOk(MethodOf(line), ParamsOf(line))

\* C1: a line that decodes to a request naming a registered method with
\* params the method accepts is answered, on its own connection, by one
\* success object whose id is the id the client sent (0 included).
C1_SuccessEchoesId ==
  \A c \in Conns :
    (Handled(c) /\ Acceptable(lines[c]))
      => /\ WireOf(out[c]).shape = "success"
         /\ WireOf(out[c]).id = IdOf(lines[c])

\* two connections answered with success, one with id 0 and one with
\* another id, each carrying its own
C1_Witness ==
  \E c, d \in Conns :
    /\ Handled(c) /\ Acceptable(lines[c]) /\ IdOf(lines[c]) = 0
    /\ Handled(d) /\ Acceptable(lines[d]) /\ IdOf(lines[d]) > 0
    /\ WireOf(out[c]).shape = "success" /\ WireOf(out[c]).id = 0
    /\ WireOf(out[d]).shape = "success" /\ WireOf(out[d]).id = IdOf(lines[d])

\* C2: a line that decodes to a request whose method is not a registry key
\* is answered by the error object -32601 "Method not found" with the
\* request's id.
C2_UnknownMethod ==
  \A c \in Conns :
    (Handled(c) /\ Conforms(lines[c]) /\ MethodOf(lines[c]) \notin FiveNames)
      => IsError(WireOf(out[c]), -32601, S_MethodNotFound, IdOf(lines[c]))

C2_Witness ==
  \E c \in Conns :
    /\ Handled(c) /\ Conforms(lines[c]) /\ MethodOf(lines[c]) \notin FiveNames
    /\ IdOf(lines[c]) > 0
    /\ WireOf(out[c]).code = -32601 /\ WireOf(out[c]).id = IdOf(lines[c])

\* {"error":{"code":-32602,"message":"Invalid params"},"id":0} and "\n"
DecodeErrorText ==
  <<"{", DQ, "e", "r", "r", "o", "r", DQ, ":", "{", DQ, "c", "o", "d", "e", DQ, ":",
    "-", "3", "2", "6", "0", "2", ",", DQ, "m", "e", "s", "s", "a", "g", "e", DQ, ":",
    DQ, "I", "n", "v", "a", "l", "i", "d", " ", "p", "a", "r", "a", "m", "s", DQ, "}",
    ",", DQ, "i", "d", DQ, ":", "0", "}", NL>>

\* C3: a line that is not JSON or does not conform to the Request shape is
\* answered by the one fixed error text, -32602 "Invalid params" with id 0,
\* whatever the kind of failure and whatever id the line contained.
C3_DecodeFailure ==
  (hstage = "done" /\ ~Conforms(hline))
    => /\ hout.writes = <<DecodeErrorText>>
       /\ IsError(WireOf(hout.writes), -32602, S_InvalidParams, 0)

\* a JSON line of the wrong shape that carries the id 42 is answered with id 0
C3_Witness ==
  /\ hstage = "done"
  /\ ~Conforms(hline)
  /\ hline.kind = "json"
  /\ SentId(hline) = <<JInt(42)>>
  /\ hout.writes = <<DecodeErrorText>>

\* C4 as stated: for the five methods, params that are not exactly the
\* method's positional arguments (not an array, too few, too many, or a
\* wrong element type) are answered by -32602 "Invalid params" with the
\* request's id.
C4_AnyArityMismatchRejected ==
  (/\ hstage = "done" /\ Conforms(hline) /\ MethodOf(hline) \in FiveNames
   /\ ~ExactOk(MethodOf(hline), ParamsOf(hline)))
    => IsError(WireOf(hout.writes), -32602, S_InvalidParams, IdOf(hline))

\* C4 amended: params that are not an array, or lack a leading element the
\* method reads, or have a wrong type there, are answered by -32602
\* "Invalid params" with the request's id and never by a success; elements
\* after the ones the method reads are not examined, so a call with too
\* many arguments and well-typed leading elements is answered by a success.
C4_LeadingMismatchRejected ==
  (hstage = "done" /\ Conforms(hline) /\ MethodOf(hline) \in FiveNames)
    => IF LeadingOk(MethodOf(hline), ParamsOf(hline))
       THEN /\ WireOf(hout.writes).shape = "success"
            /\ WireOf(hout.writes).id = IdOf(hline)
       ELSE IsError(WireOf(hout.writes), -32602, S_InvalidParams, IdOf(hline))

\* valid_anagram with a number in second place is rejected with the id sent
C4_Witness ==
  /\ hstage = "done"
  /\ Conforms(hline)
  /\ MethodOf(hline) = S_valid_anagram
  /\ ParamsOf(hline) = JArr(<<JStr(S_ab), JInt(2)>>)
  /\ IdOf(hline) = 42
  /\ IsError(WireOf(hout.writes), -32602, S_InvalidParams, 42)

\* C5: no operation blocks on another connection: under fair scheduling a
\* connection that has sent a complete line is eventually answered (or its
\* own read fails), whatever the other connections do.
Waiting(c) == cst[c] \in {"queued", "serving"} /\ nsent[c] >= 1
Answered(c) == out[c] # <<>> \/ rres[c] = "err"
C5_NoBlockingOnOthers == \A c \in Conns : Waiting(c) ~> Answered(c)

\* C6: no error is fatal to the listener: the loop never leaves its three
\* stations, between connections it is back at accept and takes the next
\* queued connection, and every handled line is answered as a server that
\* saw no failure answers it.
C6_ListenerSurvives ==
  /\ pc \in {"accept", "read", "handle"}
  /\ (pc = "accept") <=> (cur = 0)
  /\ (pc = "accept" /\ backlog # <<>>) => ENABLED Accept
  /\ \A c \in Conns :
       Handled(c) => out[c] = handle_line(create_method_table, lines[c]).writes

\* the first connection failed (its read failed, or its line drew an error
\* response) and the second was then answered with a success
C6_Witness ==
  /\ cst[1] = "dropped"
  /\ rres[1] = "err" \/ (Handled(1) /\ WireOf(out[1]).shape = "error")
  /\ Handled(2) /\ Acceptable(lines[2])
  /\ WireOf(out[2]).shape = "success" /\ WireOf(out[2]).id = IdOf(lines[2])

\* C7: at most one line is read from a connection and at most one message
\* written to it; a connection whose first read failed or hit the end of
\* the stream gets nothing.
C7_OneCyclePerConnection ==
  \A c \in Conns :
    /\ nread[c] <= 1
    /\ Len(out[c]) <= 1
    /\ Len(out[c]) <= nread[c]
    /\ cst[c] = "dropped" => c # cur

\* the client sent two lines; one was read and answered, the other never
C7_Witness ==
  \E c \in Conns :
    Handled(c) /\ nsent[c] >= 2 /\ nread[c] = 1 /\ Len(out[c]) = 1

NewLines(msg) == {i \in 1..Len(msg) : msg[i] = NL}

\* C8: once a line has been read from a connection and handled, exactly one
\* message has been written to it: one JSON object of exactly one of the
\* two shapes, followed by the only line terminator in the message.
C8_OneFramedWrite ==
  \A c \in Conns :
    Handled(c)
      => /\ Len(out[c]) = 1
         /\ (ReadSuccess(out[c][1]).shape = "success")
              # (ReadError(out[c][1]).shape = "error")
         /\ NewLines(out[c][1]) = {Len(out[c][1])}

\* a success whose result holds a line terminator
C8_Witness ==
  \E c \in Conns :
    /\ Handled(c)
    /\ WireOf(out[c]).shape = "success"
    /\ \E i \in 1..Len(WireOf(out[c]).result) : WireOf(out[c]).result[i] = NL
    /\ NewLines(out[c][1]) = {Len(out[c][1])}

\* C9: the registry holds exactly the five names, each bound to the leaf
\* method of that name, in every state.
C9_RegistryFixed ==
  /\ DOMAIN method_table = FiveNames
  /\ method_table[S_floor] = "rpc_floor"
  /\ method_table[S_nroot] = "rpc_nroot"
  /\ method_table[S_reverse] = "rpc_reverse"
  /\ method_table[S_valid_anagram] = "rpc_valid_anagram"
  /\ method_table[S_sort] = "rpc_sort"

\* a lookup that missed and a lookup that hit have both been served
C9_Witness ==
  \E c, d \in Conns :
    /\ Handled(c) /\ Conforms(lines[c]) /\ MethodOf(lines[c]) \notin FiveNames
    /\ Handled(d) /\ Conforms(lines[d]) /\ MethodOf(lines[d]) = S_sort
    /\ WireOf(out[d]).shape = "success"
    /\ DOMAIN method_table = FiveNames

C11_ResponseRoundTrip ==
  hstage = "done"
    => /\ Len(hout.writes) = 1
       /\ (ReadSuccess(hout.writes[1]).shape = "success")
            # (ReadError(hout.writes[1]).shape = "error")
       /\ IF hout.path = "success"
          THEN /\ Wire(hout.writes[1]).shape = "success"
               /\ Wire(hout.writes[1]).id = hout.resp.id
               /\ Wire(hout.writes[1]).result = hout.resp.result
               /\ Wire(hout.writes[1]).result_type = hout.resp.result_type
          ELSE /\ Wire(hout.writes[1]).shape = "error"
               /\ Wire(hout.writes[1]).id = hout.resp.id
               /\ Wire(hout.writes[1]).code = hout.resp.code
               /\ Wire(hout.writes[1]).message = hout.resp.message

\* a success whose result holds quotes, which the encoding has to escape,
\* read back unchanged with a non-zero id
C11_Witness ==
  /\ hstage = "done"
  /\ hout.path = "success"
  /\ hout.resp.id = 42
  /\ \E i \in 1..Len(hout.resp.result) : hout.resp.result[i] = DQ
  /\ Wire(hout.writes[1]).result = hout.resp.result
  /\ Wire(hout.writes[1]).id = 42

(* ---------------------------- claims on the methods ------------------- *)
\* the last call, or the one before it, was of this method on params whose
\* leading elements it accepts
Called(call, name) == call.name = name /\ LeadingOk(name, call.params)

CharsOf(str) == {str[i] : i \in 1..Len(str)}
Count(ch, str) == Cardinality({i \in 1..Len(str) : str[i] = ch})

\* the same characters with the same multiplicities
SameMultiset(x, y) ==
  \A ch \in CharsOf(x) \cup CharsOf(y) : Count(ch, x) = Count(ch, y)

\* C12: valid_anagram on two strings returns "true" with type "bool" when
\* the strings hold the same characters with the same multiplicities and
\* "false" with type "bool" otherwise, and the call with the two strings
\* exchanged returns the same.
C12_AnagramIffSameMultiset ==
  /\ Called(mcall, S_valid_anagram)
       => /\ mcall.res.ok
          /\ mcall.res.result_type = S_bool
          /\ mcall.res.result =
               IF SameMultiset(mcall.params.a[1].s, mcall.params.a[2].s)
               THEN S_true ELSE S_false
  /\ (/\ Called(mcall, S_valid_anagram) /\ Called(mprev, S_valid_anagram)
      /\ mcall.params.a[1] = mprev.params.a[2]
      /\ mcall.params.a[2] = mprev.params.a[1])
       => mcall.res = mprev.res

\* two different strings that are anagrams, asked in both orders
C12_Witness ==
  /\ Called(mprev, S_valid_anagram) /\ Called(mcall, S_valid_anagram)
  /\ mprev.params = JArr(<<JStr(S_aab), JStr(S_aba)>>)
  /\ mcall.params = JArr(<<JStr(S_aba), JStr(S_aab)>>)
  /\ mprev.res.result = S_true /\ mcall.res.result = S_true

\* A JSON array of strings read from its text: ["..","..",..]
NoStrings == [ok |-> FALSE, strs |-> <<>>]

RECURSIVE ReadStringsFrom(_, _, _)
ReadStringsFrom(msg, i, acc) ==
  LET r == ReadStr(msg, i) IN
  IF ~r.ok \/ r.next > Len(msg) THEN NoStrings
  ELSE IF msg[r.next] = "," THEN ReadStringsFrom(msg, r.next + 1, Append(acc, r.val))
  ELSE IF msg[r.next] = "]" /\ r.next = Len(msg)
       THEN [ok |-> TRUE, strs |-> Append(acc, r.val)]
  ELSE NoStrings

ReadStrings(msg) ==
  IF msg = <<"[", "]">> THEN [ok |-> TRUE, strs |-> <<>>]
  ELSE IF Len(msg) >= 1 /\ msg[1] = "[" THEN ReadStringsFrom(msg, 2, <<>>)
  ELSE NoStrings

\* x comes before y, or is y, in lexicographic order of code points
LexLeq(x, y) ==
  \/ x = y
  \/ \E i \in 1..Len(y) :
       /\ i <= Len(x) + 1
       /\ SubSeq(x, 1, i - 1) = SubSeq(y, 1, i - 1)
       /\ (i > Len(x) \/ CharCode(x[i]) < CharCode(y[i]))

Ascending(strs) == \A i \in 1..(Len(strs) - 1) : LexLeq(strs[i], strs[i + 1])

Occurrences(x, strs) == Cardinality({i \in 1..Len(strs) : strs[i] = x})

IsPermutation(xs, ys) ==
  /\ Len(xs) = Len(ys)
  /\ \A i \in 1..Len(xs) : Occurrences(xs[i], xs) = Occurrences(xs[i], ys)

\* the strings a sort call was given
SortInput(call) == [i \in 1..Len(call.params.a[1].a) |-> call.params.a[1].a[i].s]

\* C13: sort on an array of strings returns, with type "string", the JSON
\* text of an array that is in ascending lexicographic order and is a
\* permutation of the input; an input already in that order comes back as
\* it is, and so does the output when it is sorted again.
C13_SortAscendingPermutation ==
  /\ Called(mcall, S_sort)
       => /\ mcall.res.ok
          /\ mcall.res.result_type = S_string
          /\ ReadStrings(mcall.res.result).ok
          /\ Ascending(ReadStrings(mcall.res.result).strs)
          /\ IsPermutation(SortInput(mcall), ReadStrings(mcall.res.result).strs)
          /\ Ascending(SortInput(mcall))
               => ReadStrings(mcall.res.result).strs = SortInput(mcall)
  /\ (/\ Called(mprev, S_sort) /\ Called(mcall, S_sort)
      /\ SortInput(mcall) = ReadStrings(mprev.res.result).strs)
       => mcall.res = mprev.res

\* an unsorted input with a duplicate, then its output sorted again
C13_Witness ==
  /\ Called(mprev, S_sort) /\ Called(mcall, S_sort)
  /\ SortInput(mprev) = <<S_ba, S_ab, S_ab>>
  /\ ReadStrings(mprev.res.result).strs = <<S_ab, S_ab, S_ba>>
  /\ SortInput(mcall) = <<S_ab, S_ab, S_ba>>
  /\ mcall.res = mprev.res

\* what the method registered under the line's name returns on its params
MethodResult(line) == method_fn(create_method_table[MethodOf(line)], ParamsOf(line))

\* C14: the lookup comes after decoding and before the params are looked
\* at: the response is an error with code -32601 exactly when the line
\* conforms and names no registered method, whatever its params; a line
\* that does not conform gets -32602 with id 0 whatever method it names; a
\* registered method's Ok is written as a success with its result and type
\* and its Err as -32602 with its message; every -32601 says "Method not
\* found" and every -32602 "Invalid params".
C14_DispatchOrder ==
  hstage = "done"
    => /\ (WireOf(hout.writes).shape = "error" /\ WireOf(hout.writes).code = -32601)
            <=> (Conforms(hline) /\ MethodOf(hline) \notin FiveNames)
       /\ ~Conforms(hline) => IsError(WireOf(hout.writes), -32602, S_InvalidParams, 0)
       /\ (Conforms(hline) /\ MethodOf(hline) \in FiveNames)
            => IF MethodResult(hline).ok
               THEN /\ WireOf(hout.writes).shape = "success"
                    /\ WireOf(hout.writes).result = MethodResult(hline).result
                    /\ WireOf(hout.writes).result_type = MethodResult(hline).result_type
                    /\ WireOf(hout.writes).id = IdOf(hline)
               ELSE IsError(WireOf(hout.writes), -32602,
                            MethodResult(hline).err, IdOf(hline))
       /\ WireOf(hout.writes).shape \in {"success", "error"}
       /\ WireOf(hout.writes).shape = "error"
            => \/ /\ WireOf(hout.writes).code = -32601
                  /\ WireOf(hout.writes).message = S_MethodNotFound
               \/ /\ WireOf(hout.writes).code = -32602
                  /\ WireOf(hout.writes).message = S_InvalidParams

\* an unregistered name with params no method would accept: the lookup
\* answers before anything reads the params
C14_Witness ==
  /\ hstage = "done"
  /\ Conforms(hline)
  /\ MethodOf(hline) = S_ab
  /\ ParamsOf(hline) = JObj(<<>>)
  /\ IdOf(hline) = 42
  /\ IsError(WireOf(hout.writes), -32601, S_MethodNotFound, 42)

\* the string a reverse call was given
ReverseInput(call) == call.params.a[1].s

\* C15: reverse on a string s returns, with type "string", the string of
\* the length of s whose i-th character is the i-th character of s counted
\* from the end; the empty string gives the empty string, and reverse on
\* the result of a reverse call returns what that call was given.
C15_ReverseInvolution ==
  /\ Called(mcall, S_reverse)
       => /\ mcall.res.ok
          /\ mcall.res.result_type = S_string
          /\ Len(mcall.res.result) = Len(ReverseInput(mcall))
          /\ \A i \in 1..Len(ReverseInput(mcall)) :
               mcall.res.result[i]
                 = ReverseInput(mcall)[Len(ReverseInput(mcall)) + 1 - i]
          /\ ReverseInput(mcall) = <<>> => mcall.res.result = <<>>
  /\ (/\ Called(mprev, S_reverse) /\ Called(mcall, S_reverse)
      /\ ReverseInput(mcall) = mprev.res.result)
       => mcall.res.result = ReverseInput(mprev)

\* "abc" reversed to "cba" and that reversed back to "abc"
C15_Witness ==
  /\ Called(mprev, S_reverse) /\ Called(mcall, S_reverse)
  /\ ReverseInput(mprev) = S_abc
  /\ mprev.res.result = S_cba
  /\ ReverseInput(mcall) = S_cba
  /\ mcall.res.result = S_abc

\* the number a floor call was given
FloorInput(call) == call.params.a[1]

\* the greatest integer not exceeding the number v, v taken as written
GreatestIntBelow(v) ==
  IF v.t = "int" THEN v.n
  ELSE CHOOSE k \in -100..100 : 10 * k <= v.n /\ v.n < 10 * (k + 1)

\* an integer from 2^53 on that no f64 holds: the odd ones
NoF64(v) == v.t = "int" /\ IsBig(v.n) /\ (v.n - BigBase) % 2 = 1

\* of the two even neighbours of such an integer, the multiple of 4
NearestF64(v) ==
  CHOOSE i \in {v.n - 1, v.n + 1} : (i - BigBase) % 4 = 0

\* C16 as stated: floor on a number x returns, with type "int", the
\* rendering of the greatest integer not exceeding x, which is below x for
\* a negative non-integer and x itself for an integer.
C16_FloorOfNumber ==
  Called(mcall, S_floor)
    => /\ mcall.res.ok
       /\ mcall.res.result_type = S_int
       /\ mcall.res.result = RenderInt(GreatestIntBelow(FloorInput(mcall)))

\* C16 amended: floor converts x to the nearest f64 and returns, with type
\* "int", the rendering of the greatest integer not exceeding that f64.
\* For an x an f64 holds this is the greatest integer not exceeding x:
\* below x for a negative non-integer, x itself for an integer.  For an
\* integer from 2^53 on that no f64 holds it is the integer next to x
\* whose f64 mantissa is even, one less or one more than x.
C16_FloorOfNearestF64 ==
  Called(mcall, S_floor)
    => /\ mcall.res.ok
       /\ mcall.res.result_type = S_int
       /\ mcall.res.result =
            IF NoF64(FloorInput(mcall))
            THEN RenderInt(NearestF64(FloorInput(mcall)))
            ELSE RenderInt(GreatestIntBelow(FloorInput(mcall)))

\* floor of -3.2 is -4, and floor of 2^53 + 3 is 2^53 + 4
C16_Witness ==
  /\ Called(mprev, S_floor) /\ Called(mcall, S_floor)
  /\ FloorInput(mprev) = JFloat(-32)
  /\ mprev.res.result = <<"-", "4">>
  /\ FloorInput(mcall) = JInt(BigBase + 3)
  /\ mcall.res.result
       = <<"9", "0", "0", "7", "1", "9", "9", "2", "5", "4", "7", "4", "0", "9", "9", "6">>

(* ---------------------------- claims on the loop ---------------------- *)
\* C17: a connection whose first read reported the end of the stream has
\* been written nothing, not even an error, and has been dropped, and the
\* loop is back at accept until it takes the next connection; a connection
\* that has been written something is one from which a line was read.
C17_EofGetsNothing ==
  /\ \A c \in Conns :
       /\ rres[c] = "eof"
            => out[c] = <<>> /\ nread[c] = 0 /\ cst[c] = "dropped" /\ cur # c
       /\ out[c] # <<>> => nread[c] >= 1 /\ rres[c] = "line"
  /\ (accepted # <<>> /\ rres[accepted[Len(accepted)]] = "eof")
       => pc = "accept" /\ cur = 0

\* the first client closed without sending a byte and got nothing; the
\* second was accepted after it and answered
C17_Witness ==
  /\ accepted = <<1, 2>>
  /\ rres[1] = "eof" /\ nsent[1] = 0 /\ out[1] = <<>>
  /\ Handled(2) /\ Len(out[2]) = 1

\* C18: at most one connection is held by the loop, the one last accepted;
\* when a connection is accepted every connection accepted before it has
\* been dropped; only accepted connections are read or written; and a
\* write goes to the connection last accepted, so that responses appear
\* in the order in which their connections were accepted.
C18_SerialInAcceptOrder ==
  /\ [](/\ Cardinality({c \in Conns : cst[c] = "serving"}) <= 1
        /\ \A c \in Conns : cst[c] = "serving" <=> c = cur
        /\ (cur # 0) <=> (pc \in {"read", "handle"})
        /\ cur # 0 => accepted[Len(accepted)] = cur
        /\ \A i, j \in 1..Len(accepted) :
             i < j => accepted[i] # accepted[j] /\ cst[accepted[i]] = "dropped"
        /\ \A c \in Conns :
             (rres[c] # "none" \/ out[c] # <<>>)
               => \E i \in 1..Len(accepted) : accepted[i] = c)
  /\ [][\A c \in Conns :
         out'[c] # out[c]
           => c = cur /\ accepted[Len(accepted)] = c /\ accepted' = accepted]_vars

\* the first connection has its response and is dropped; the second, whose
\* line was sent in the meantime, is being dispatched
C18_Witness ==
  /\ accepted = <<1, 2>>
  /\ Handled(1) /\ Len(out[1]) = 1
  /\ cur = 2 /\ pc = "handle" /\ out[2] = <<>>

(* ---------------------------- claims on the methods, continued -------- *)
\* the elements of an array a method of this name reads
Leading(name, p) == SubSeq(p.a, 1, Arity(name))

LongEnough(call) ==
  call.params.t = "arr" /\ Len(call.params.a) >= Arity(call.name)

\* C19: two calls of the same method on arrays that hold the elements the
\* method reads (one for floor, reverse and sort, two for nroot and
\* valid_anagram) and agree on them return the same, whatever follows those
\* elements in either array; a call on an array with fewer elements than
\* the method reads returns the error "Invalid params".
C19_LeadingElementsDecide ==
  /\ (/\ mcall.name \in FiveNames /\ mprev.name = mcall.name
      /\ LongEnough(mcall) /\ LongEnough(mprev)
      /\ Leading(mcall.name, mcall.params) = Leading(mprev.name, mprev.params))
       => mcall.res = mprev.res
  /\ (/\ mcall.name \in FiveNames
      /\ mcall.params.t = "arr" /\ ~LongEnough(mcall))
       => ~mcall.res.ok /\ mcall.res.err = S_InvalidParams

\* nroot of [2, 16] and of [2, 16, "ab"]: both return "4"
C19_Witness ==
  /\ mprev.name = S_nroot /\ mcall.name = S_nroot
  /\ mprev.params = JArr(<<JInt(2), JInt(16)>>)
  /\ mcall.params = JArr(<<JInt(2), JInt(16), JStr(S_ab)>>)
  /\ mprev.res.ok /\ mprev.res.result = <<"4">>
  /\ mcall.res = mprev.res

====
